---- MODULE Spec2Model ----
(***************************************************************************)
(* Check-in scoring and state-update pipeline of main.py: the sentiment    *)
(* classifier and feedback generator calls, the mood rating, the health    *)
(* update with its emergency override, the JSON data file, and the two     *)
(* API handlers create_checkin and get_tree_health.                        *)
(*                                                                         *)
(* Python strings are sequences of one-character strings, so that strip(), *)
(* lower() and the substring test are computed, not assumed.               *)
(***************************************************************************)
EXTENDS Integers, Sequences, FiniteSets, TLC

VARIABLES file, response, call, pc, loc

vars == <<file, response, call, pc, loc>>

(***************************************************************************)
(* Bounds of the model.                                                    *)
(***************************************************************************)
MaxEntries == 1
MaxHealthEntries == 1
MaxSeqEntries == 3
MaxStoreEntries == 2
MaxConcEntries == 2

(***************************************************************************)
(* String primitives.                                                      *)
(***************************************************************************)
UpperCase == <<"A", "B", "C", "D", "E", "F", "G", "H", "I", "J", "K", "L", "M",
               "N", "O", "P", "Q", "R", "S", "T", "U", "V", "W", "X", "Y", "Z">>

LowerCase == <<"a", "b", "c", "d", "e", "f", "g", "h", "i", "j", "k", "l", "m",
               "n", "o", "p", "q", "r", "s", "t", "u", "v", "w", "x", "y", "z">>

Whitespace == {" ", "\t", "\n"}

LowerChar(c) ==
    IF \E i \in 1..Len(UpperCase) : UpperCase[i] = c
    THEN LowerCase[CHOOSE i \in 1..Len(UpperCase) : UpperCase[i] = c]
    ELSE c

\* str.lower()
Lower(s) == [i \in 1..Len(s) |-> LowerChar(s[i])]

\* str.strip()
Strip(s) ==
    IF \A i \in 1..Len(s) : s[i] \in Whitespace
    THEN <<>>
    ELSE LET first == CHOOSE i \in 1..Len(s) :
                          /\ s[i] \notin Whitespace
                          /\ \A j \in 1..(i - 1) : s[j] \in Whitespace
             last == CHOOSE i \in 1..Len(s) :
                          /\ s[i] \notin Whitespace
                          /\ \A j \in (i + 1)..Len(s) : s[j] \in Whitespace
         IN SubSeq(s, first, last)

\* sub in s
Contains(s, sub) ==
    \E i \in 0..(Len(s) - Len(sub)) : SubSeq(s, i + 1, i + Len(sub)) = sub

(***************************************************************************)
(* DATA MANAGEMENT FUNCTIONS                                               *)
(*                                                                         *)
(* A Python value read from or written to the data file is a record        *)
(* [type, keys, entries, current_health]: `keys` are the keys a dict       *)
(* holds, so that data.get(k, default) and data[k] behave as in Python.    *)
(* The file is [kind, value]: absent, unreadable (open fails), undecodable *)
(* (bytes that are not text), text (text that is not JSON) or json (the    *)
(* JSON text of `value`).                                                  *)
(***************************************************************************)
DefaultHealth == 50

EmergencyHealth == 7

Dict(keys, entries, current_health) ==
    [type |-> "dict", keys |-> keys, entries |-> entries,
     current_health |-> current_health]

Document(entries, current_health) ==
    Dict({"entries", "current_health"}, entries, current_health)

DefaultDocument == Document(<<>>, DefaultHealth)

JsonList == [type |-> "list", keys |-> {}, entries |-> <<>>, current_health |-> 0]

NoValue == [type |-> "none", keys |-> {}, entries |-> <<>>, current_health |-> 0]

AbsentFile == [kind |-> "absent", value |-> NoValue]

UnreadableFile == [kind |-> "unreadable", value |-> NoValue]

UndecodableFile == [kind |-> "undecodable", value |-> NoValue]

NotJsonFile == [kind |-> "text", value |-> NoValue]

JsonFile(value) == [kind |-> "json", value |-> value]

Return(value) == [ok |-> TRUE, value |-> value]

Raise(exception, where) == [ok |-> FALSE, exception |-> exception, raised_in |-> where]

load_data(f) ==
    IF f.kind = "absent" THEN Return(DefaultDocument)
    ELSE IF f.kind = "unreadable" THEN Raise("PermissionError", "load_data")
    ELSE IF f.kind = "undecodable" THEN Raise("UnicodeDecodeError", "load_data")
    ELSE IF f.kind = "text" THEN Return(DefaultDocument)
    ELSE Return(f.value)

save_data(data) == JsonFile(data)

(***************************************************************************)
(* AI ANALYSIS FUNCTIONS                                                   *)
(*                                                                         *)
(* The outcome of one client.models.generate_content call is               *)
(* [kind, text, error]: kind "text" (response.text is `text`), "none"      *)
(* (response.text is None) or "raise" (the call raises `error`).           *)
(***************************************************************************)
TextReply(text) == [kind |-> "text", text |-> text, error |-> ""]

NoneReply == [kind |-> "none", text |-> <<>>, error |-> ""]

RaiseReply(error) == [kind |-> "raise", text |-> <<>>, error |-> error]

NotCalled == [kind |-> "not called", text |-> <<>>, error |-> ""]

positive_str == <<"p", "o", "s", "i", "t", "i", "v", "e">>

negative_str == <<"n", "e", "g", "a", "t", "i", "v", "e">>

die_str == <<"d", "i", "e">>

analyze_text(text, reply) ==
    IF Strip(text) = <<>> THEN Return("neutral")
    ELSE IF reply.kind = "raise" THEN Raise(reply.error, "analyze_text")
    ELSE IF reply.kind = "none" THEN Raise("AttributeError", "analyze_text")
    ELSE LET sentiment == Lower(Strip(reply.text))
         IN IF Contains(sentiment, positive_str) THEN Return("positive")
            ELSE IF Contains(sentiment, negative_str) THEN Return("negative")
            ELSE Return("neutral")

\* the Good threshold taken as exclusive
get_mood_rating_strict(mcq_score, sentiment) ==
    LET base_score == IF sentiment = "positive" THEN mcq_score + 2
                      ELSE IF sentiment = "negative" THEN mcq_score - 2
                      ELSE mcq_score
    IN IF base_score > 21 THEN "Good"
       ELSE IF base_score >= 13 THEN "Moderate"
       ELSE "Low"

get_mood_rating(mcq_score, sentiment) ==
    LET base_score == IF sentiment = "positive" THEN mcq_score + 2
                      ELSE IF sentiment = "negative" THEN mcq_score - 2
                      ELSE mcq_score
    IN IF base_score >= 21 THEN "Good"
       ELSE IF base_score >= 13 THEN "Moderate"
       ELSE "Low"

FallbackPrefix == "Sorry, there was an error generating feedback. Your check-in is still saved."

FallbackFeedback(e) == <<FallbackPrefix, " (Error: ", e, ")">>

LoggedFeedback == <<"Thank you for checking in. Your entry has been logged.">>

\* a failed generation answered with the message for an empty reply
generate_feedback_logged(mcq_score, sentiment, free_text, gen) ==
    IF gen.kind \in {"raise", "none"} THEN LoggedFeedback
    ELSE LET feedback == Strip(gen.text)
         IN IF feedback = <<>> THEN LoggedFeedback ELSE feedback

generate_feedback(mcq_score, sentiment, free_text, gen) ==
    IF gen.kind = "raise" THEN FallbackFeedback(gen.error)
    ELSE IF gen.kind = "none" THEN FallbackFeedback("AttributeError")
    ELSE LET feedback == Strip(gen.text)
         IN IF feedback = <<>> THEN LoggedFeedback ELSE feedback

(***************************************************************************)
(* API ENDPOINTS                                                           *)
(***************************************************************************)
CheckinRequest(mood, anxiety, motivation, connection, free_text) ==
    [mood |-> mood, anxiety |-> anxiety, motivation |-> motivation,
     connection |-> connection, free_text |-> free_text]

CheckinResponse(mood_rating, feedback, new_health_score, is_emergency) ==
    [status |-> 200, mood_rating |-> mood_rating, feedback |-> feedback,
     new_health_score |-> new_health_score, is_emergency |-> is_emergency]

\* an exception that leaves a handler is answered with status 500
ServerError(raised) ==
    [status |-> 500, exception |-> raised.exception, raised_in |-> raised.raised_in]

NoResponse == [status |-> 0]

Max(a, b) == IF a >= b THEN a ELSE b

Min(a, b) == IF a <= b THEN a ELSE b

\* Moderate raising the health by 2
health_delta_moderate2(mood_rating) ==
    IF mood_rating = "Good" THEN 5
    ELSE IF mood_rating = "Moderate" THEN 2
    ELSE IF mood_rating = "Low" THEN 0 - 5
    ELSE 0

health_delta(mood_rating) ==
    IF mood_rating = "Good" THEN 5
    ELSE IF mood_rating = "Moderate" THEN 1
    ELSE IF mood_rating = "Low" THEN 0 - 5
    ELSE 0

\* the upper cap left out
cap_health_floor(current_health) == Max(0, current_health)

cap_health(current_health) == Max(0, Min(100, current_health))

\* the test made on the text as typed
is_emergency_text_cased(free_text) == Contains(free_text, die_str)

is_emergency_text(free_text) == Contains(Lower(free_text), die_str)

\* create_checkin up to the call of load_data: score, sentiment, mood, feedback
score_checkin(request, reply, gen) ==
    LET mcq_score == request.mood + request.anxiety + request.motivation
                         + request.connection
        analyzed == analyze_text(request.free_text, reply)
    IN IF ~analyzed.ok THEN analyzed
       ELSE LET sentiment == analyzed.value
            IN Return([mcq_score |-> mcq_score,
                       sentiment |-> sentiment,
                       mood_rating |-> get_mood_rating(mcq_score, sentiment),
                       feedback |-> generate_feedback(mcq_score, sentiment,
                                                      request.free_text, gen),
                       free_text |-> request.free_text])

\* the new entry put first
append_entry_first(entries, new_entry) == <<new_entry>> \o entries

append_entry(entries, new_entry) == Append(entries, new_entry)

\* create_checkin from the loaded data on: the new health, the new entry, the
\* document that is saved and the response
update_checkin(data, scored, today) ==
    IF data.type # "dict" THEN Raise("AttributeError", "create_checkin")
    ELSE LET stored == IF "current_health" \in data.keys
                       THEN data.current_health ELSE DefaultHealth
             updated == cap_health(stored + health_delta(scored.mood_rating))
             is_emergency == is_emergency_text(scored.free_text)
             current_health == IF is_emergency THEN EmergencyHealth ELSE updated
             new_entry == [date |-> today,
                           mcq_score |-> scored.mcq_score,
                           sentiment |-> scored.sentiment,
                           mood |-> scored.mood_rating,
                           free_text |-> scored.free_text,
                           feedback |-> scored.feedback]
         IN IF "entries" \notin data.keys
            THEN Raise("KeyError", "create_checkin")
            ELSE Return([data |-> Dict(data.keys \cup {"current_health"},
                                       append_entry(data.entries, new_entry),
                                       current_health),
                         response |-> CheckinResponse(scored.mood_rating,
                                                      scored.feedback,
                                                      current_health,
                                                      is_emergency)])

\* the whole handler, run without interleaving, on the file f
create_checkin(f, request, reply, gen, today) ==
    LET scored == score_checkin(request, reply, gen)
    IN IF ~scored.ok THEN [file |-> f, response |-> ServerError(scored)]
       ELSE LET loaded == load_data(f)
            IN IF ~loaded.ok THEN [file |-> f, response |-> ServerError(loaded)]
               ELSE LET updated == update_checkin(loaded.value, scored.value, today)
                    IN IF ~updated.ok
                       THEN [file |-> f, response |-> ServerError(updated)]
                       ELSE [file |-> save_data(updated.value.data),
                             response |-> updated.value.response]

\* the flourishing tier starting at 80
tree_image_from80(health) ==
    IF health >= 80 THEN "tree-flourishing.png"
    ELSE IF health > 60 THEN "tree-healthy.png"
    ELSE IF health > 40 THEN "tree-neutral.png"
    ELSE IF health > 20 THEN "tree-wilting.png"
    ELSE "tree-rotting.png"

tree_image(health) ==
    IF health > 80 THEN "tree-flourishing.png"
    ELSE IF health > 60 THEN "tree-healthy.png"
    ELSE IF health > 40 THEN "tree-neutral.png"
    ELSE IF health > 20 THEN "tree-wilting.png"
    ELSE "tree-rotting.png"

get_tree_health(f) ==
    LET loaded == load_data(f)
    IN IF ~loaded.ok THEN ServerError(loaded)
       ELSE LET data == loaded.value
            IN IF data.type # "dict"
               THEN ServerError(Raise("AttributeError", "get_tree_health"))
               ELSE LET health == IF "current_health" \in data.keys
                                  THEN data.current_health ELSE DefaultHealth
                    IN [status |-> 200, health_score |-> health,
                        image_file |-> tree_image(health)]

(***************************************************************************)
(* The environment: what a request carries, what the two model calls       *)
(* answer, and the server-local date.                                      *)
(***************************************************************************)
NoCall == [op |-> "none"]

CheckinCall(request, reply, gen, today) ==
    [op |-> "checkin", request |-> request, reply |-> reply, gen |-> gen,
     today |-> today]

TreeCall == [op |-> "tree"]

\* the classifier is called only for text that is not blank, and the generator
\* only when the classifier call has returned
RepliesFor(free_text, replies) ==
    IF Strip(free_text) = <<>> THEN {NotCalled} ELSE replies

GensFor(free_text, reply, gens) ==
    IF analyze_text(free_text, reply).ok THEN gens ELSE {NotCalled}

EntryCount(f) == IF f.kind = "json" THEN Len(f.value.entries) ELSE 0

Idle == [state |-> "idle"]

Procs == {1, 2}

(***************************************************************************)
(* Handlers run one at a time.                                             *)
(***************************************************************************)
CreateCheckin(request, reply, gen, today) ==
    LET result == create_checkin(file, request, reply, gen, today)
    IN /\ file' = result.file
       /\ response' = result.response
       /\ call' = CheckinCall(request, reply, gen, today)
       /\ UNCHANGED <<pc, loc>>

GetTreeHealth ==
    /\ response' = get_tree_health(file)
    /\ call' = TreeCall
    /\ UNCHANGED <<file, pc, loc>>

InitRest ==
    /\ response = NoResponse
    /\ call = NoCall
    /\ pc = [p \in Procs |-> "idle"]
    /\ loc = [p \in Procs |-> Idle]

(***************************************************************************)
(* Sample inputs.                                                          *)
(***************************************************************************)
Today == {"2025-06-01"}

T_empty == <<>>
T_blank == <<" ", "\n">>
T_ok == <<"o", "k">>
T_DIe == <<"D", "I", "e">>
T_diet == <<"a", " ", "d", "i", "e", "t">>
T_d_ie == <<"d", " ", "i", "e">>

R_Positive == TextReply(<<"P", "o", "s", "i", "t", "i", "v", "e", ".">>)
R_negative == TextReply(<<" ", "n", "e", "g", "a", "t", "i", "v", "e", "\n">>)
R_neutral == TextReply(<<"n", "e", "u", "t", "r", "a", "l">>)
R_mixed == TextReply(<<"m", "i", "x", "e", "d">>)
R_raise == RaiseReply("503 UNAVAILABLE")

G_text == TextReply(<<" ", "W", "e", "l", "l", " ", "d", "o", "n", "e", "\n">>)
G_blank == TextReply(<<" ">>)
G_raise == RaiseReply("503 UNAVAILABLE")

Checkins(cap, ratings, texts, replies, gens) ==
    /\ EntryCount(file) < cap
    /\ \E r \in ratings, t \in texts :
         \E reply \in RepliesFor(t, replies) :
           \E gen \in GensFor(t, reply, gens), today \in Today :
             CreateCheckin(CheckinRequest(r[1], r[2], r[3], r[4], t), reply, gen, today)

(***************************************************************************)
(* Spec: from an absent data file, with every outcome of the two model     *)
(* calls.                                                                  *)
(***************************************************************************)
Ratings == {<<1, 1, 1, 1>>, <<3, 3, 3, 3>>, <<5, 5, 5, 4>>}
FreeTexts == {T_empty, T_blank, T_ok, T_DIe}
Replies == {R_Positive, R_negative, R_mixed, NoneReply, R_raise}
Gens == {G_text, G_blank, NoneReply, G_raise}

Init ==
    /\ file = AbsentFile
    /\ InitRest

Checkin == Checkins(MaxEntries, Ratings, FreeTexts, Replies, Gens)

Next == Checkin \/ GetTreeHealth

Spec == Init /\ [][Next]_vars

(***************************************************************************)
(* SpecHealth: from an absent file or a document holding any health in     *)
(* [0,100]; ratings in and out of [1,5], every sentiment, texts with and   *)
(* without "die".                                                          *)
(***************************************************************************)
HealthRange == 0..100
HealthRatings == {<<1, 1, 1, 1>>, <<5, 5, 5, 5>>, <<9, 0 - 7, 40, 0>>}
HealthTexts == {T_ok, T_DIe, T_diet, T_d_ie}
HealthReplies == {R_Positive, R_negative, R_neutral}
HealthGens == {G_text}

InitHealth ==
    /\ file \in {AbsentFile} \cup {JsonFile(Document(<<>>, h)) : h \in HealthRange}
    /\ InitRest

CheckinHealth ==
    Checkins(MaxHealthEntries, HealthRatings, HealthTexts, HealthReplies, HealthGens)

NextHealth == CheckinHealth \/ GetTreeHealth

SpecHealth == InitHealth /\ [][NextHealth]_vars

(***************************************************************************)
(* SpecMood: one check-in for every four ratings in [1,5] and every        *)
(* sentiment, the request being in flight in the initial state.            *)
(***************************************************************************)
RatingRange == 1..5
MoodReplies == {R_Positive, R_negative, R_neutral}

InitMood ==
    /\ file = AbsentFile
    /\ response = NoResponse
    /\ \E mood \in RatingRange, anxiety \in RatingRange,
          motivation \in RatingRange, connection \in RatingRange,
          reply \in MoodReplies :
         call = [op |-> "request",
                 request |-> CheckinRequest(mood, anxiety, motivation, connection, T_ok),
                 reply |-> reply, gen |-> G_text, today |-> "2025-06-01"]
    /\ pc = [p \in Procs |-> "idle"]
    /\ loc = [p \in Procs |-> Idle]

HandleCheckin ==
    /\ call.op = "request"
    /\ CreateCheckin(call.request, call.reply, call.gen, call.today)

NextMood == HandleCheckin

SpecMood == InitMood /\ [][NextMood]_vars

(***************************************************************************)
(* SpecSeq: sequences of check-ins, one at a time, from an absent file.    *)
(***************************************************************************)
SeqRatings == {<<1, 1, 1, 1>>, <<5, 5, 5, 5>>}
SeqTexts == {T_ok, T_DIe}
SeqReplies == {R_Positive, R_raise}
SeqGens == {G_text, G_raise}

InitSeq ==
    /\ file = AbsentFile
    /\ InitRest

CheckinSeq == Checkins(MaxSeqEntries, SeqRatings, SeqTexts, SeqReplies, SeqGens)

NextSeq == CheckinSeq \/ GetTreeHealth

SpecSeq == InitSeq /\ [][NextSeq]_vars

(***************************************************************************)
(* SpecStore: the data file holds anything when the service starts.        *)
(***************************************************************************)
SampleEntry ==
    [date |-> "2025-05-31", mcq_score |-> 12, sentiment |-> "neutral",
     mood |-> "Low", free_text |-> T_ok, feedback |-> LoggedFeedback]

StoreFiles ==
    {AbsentFile, UnreadableFile, UndecodableFile, NotJsonFile,
     JsonFile(JsonList),
     JsonFile(Dict({}, <<>>, 0)),
     JsonFile(Dict({"current_health"}, <<>>, 30)),
     JsonFile(Dict({"entries"}, <<>>, 0)),
     JsonFile(Document(<<>>, 50)),
     JsonFile(Document(<<SampleEntry>>, 45))}

StoreRatings == {<<1, 1, 1, 1>>, <<3, 4, 3, 4>>, <<5, 5, 5, 5>>}
StoreTexts == {T_empty, T_ok, T_DIe}
StoreReplies == {R_Positive, R_neutral}
StoreGens == {G_text}

InitStore ==
    /\ file \in StoreFiles
    /\ InitRest

CheckinStore ==
    Checkins(MaxStoreEntries, StoreRatings, StoreTexts, StoreReplies, StoreGens)

NextStore == CheckinStore \/ GetTreeHealth

SpecStore == InitStore /\ [][NextStore]_vars

(***************************************************************************)
(* SpecConc: create_checkin is a plain def, which the server runs in a     *)
(* pool of threads; two threads take requests, and their reads and writes  *)
(* of the data file interleave.  loc[p] holds the locals of thread p:      *)
(* scored (mcq_score, sentiment, mood_rating, feedback), data (the dict    *)
(* load_data returned, updated in place before it is saved), response;     *)
(* loaded keeps what load_data returned.                                   *)
(***************************************************************************)
ConcRatings == {<<1, 1, 1, 1>>, <<5, 5, 5, 5>>}
ConcTexts == {T_ok}
ConcReplies == {R_Positive, R_raise}
ConcGens == {G_text}

Begin(p, request, reply, gen) ==
    /\ pc[p] \in {"idle", "done", "failed"}
    /\ EntryCount(file) < MaxConcEntries
    /\ LET scored == score_checkin(request, reply, gen)
       IN IF scored.ok
          THEN /\ pc' = [pc EXCEPT ![p] = "scored"]
               /\ loc' = [loc EXCEPT ![p] = [scored |-> scored.value]]
          ELSE /\ pc' = [pc EXCEPT ![p] = "failed"]
               /\ loc' = [loc EXCEPT ![p] = [response |-> ServerError(scored)]]
    /\ UNCHANGED <<file, response, call>>

Load(p) ==
    /\ pc[p] = "scored"
    /\ LET loaded == load_data(file)
       IN IF loaded.ok
          THEN /\ pc' = [pc EXCEPT ![p] = "loaded"]
               /\ loc' = [loc EXCEPT ![p] = [scored |-> loc[p].scored,
                                             data |-> loaded.value,
                                             loaded |-> loaded.value]]
          ELSE /\ pc' = [pc EXCEPT ![p] = "failed"]
               /\ loc' = [loc EXCEPT ![p] = [response |-> ServerError(loaded)]]
    /\ UNCHANGED <<file, response, call>>

\* the update applied to the file as it is when the thread saves
SaveReloaded(p, today) ==
    /\ pc[p] = "loaded"
    /\ LET updated == update_checkin(load_data(file).value, loc[p].scored, today)
       IN /\ updated.ok
          /\ file' = save_data(updated.value.data)
          /\ pc' = [pc EXCEPT ![p] = "done"]
          /\ loc' = [loc EXCEPT ![p] = [scored |-> loc[p].scored,
                                        data |-> updated.value.data,
                                        loaded |-> loc[p].loaded,
                                        response |-> updated.value.response]]
    /\ UNCHANGED <<response, call>>

Save(p, today) ==
    /\ pc[p] = "loaded"
    /\ LET updated == update_checkin(loc[p].data, loc[p].scored, today)
       IN IF updated.ok
          THEN /\ file' = save_data(updated.value.data)
               /\ pc' = [pc EXCEPT ![p] = "done"]
               /\ loc' = [loc EXCEPT ![p] = [scored |-> loc[p].scored,
                                             data |-> updated.value.data,
                                             loaded |-> loc[p].loaded,
                                             response |-> updated.value.response]]
          ELSE /\ file' = file
               /\ pc' = [pc EXCEPT ![p] = "failed"]
               /\ loc' = [loc EXCEPT ![p] = [response |-> ServerError(updated)]]
    /\ UNCHANGED <<response, call>>

InitConc ==
    /\ file = AbsentFile
    /\ InitRest

BeginAny ==
    \E p \in Procs, r \in ConcRatings, t \in ConcTexts :
      \E reply \in RepliesFor(t, ConcReplies) :
        \E gen \in GensFor(t, reply, ConcGens) :
          Begin(p, CheckinRequest(r[1], r[2], r[3], r[4], t), reply, gen)

LoadAny == \E p \in Procs : Load(p)

SaveAny == \E p \in Procs, today \in Today : Save(p, today)

NextConc == BeginAny \/ LoadAny \/ SaveAny

SpecConc == InitConc /\ [][NextConc]_vars

(***************************************************************************)
(* Properties.                                                             *)
(***************************************************************************)
EntriesOf(f) == IF f.kind = "json" THEN f.value.entries ELSE <<>>

StoredHealth(f) == IF f.kind = "json" THEN f.value.current_health ELSE 50

RatingSum(request) ==
    request.mood + request.anxiety + request.motivation + request.connection

LastEntry(f) == f.value.entries[Len(f.value.entries)]

\* the step is a check-in that returned its response
CheckinCompleted == call'.op = "checkin" /\ response'.status = 200

Clamp(x) == IF x < 0 THEN 0 ELSE IF x > 100 THEN 100 ELSE x

Delta(m) == CASE m = "Good" -> 5 [] m = "Moderate" -> 1 [] m = "Low" -> 0 - 5

\* the text holds d, i, e in a row, each letter in either case
HasDie(text) ==
    \E i \in 1..(Len(text) - 2) :
        /\ text[i] \in {"d", "D"}
        /\ text[i + 1] \in {"i", "I"}
        /\ text[i + 2] \in {"e", "E"}

\* C1: the persisted current_health is an integer in [0,100], and the
\* new_health_score a check-in returns is the current_health it persisted.
C1_HealthInRange ==
    /\ file.kind = "json" =>
          /\ file.value.current_health \in Int
          /\ file.value.current_health >= 0
          /\ file.value.current_health <= 100
    /\ (call.op = "checkin" /\ response.status = 200) =>
          /\ file.kind = "json"
          /\ response.new_health_score = file.value.current_health

C1_Witness ==
    /\ call.op = "checkin"
    /\ response.status = 200
    /\ response.mood_rating = "Good"
    /\ ~response.is_emergency
    /\ RatingSum(call.request) > 20
    /\ file.value.current_health = 100

\* C2: for ratings in [1,5] and each sentiment, the mood rating of a check-in
\* follows adjusted = sum(ratings) + (+2 positive, 0 neutral, -2 negative):
\* Good iff adjusted >= 21, Moderate iff 13 <= adjusted <= 20, Low iff
\* adjusted < 13.
C2_MoodTable ==
    (call.op = "checkin" /\ response.status = 200) =>
        LET sentiment == LastEntry(file).sentiment
            adjusted == RatingSum(call.request)
                          + (CASE sentiment = "positive" -> 2
                               [] sentiment = "neutral" -> 0
                               [] sentiment = "negative" -> 0 - 2)
        IN /\ (response.mood_rating = "Good") <=> (adjusted >= 21)
           /\ (response.mood_rating = "Moderate") <=> (13 <= adjusted /\ adjusted <= 20)
           /\ (response.mood_rating = "Low") <=> (adjusted < 13)
           /\ response.mood_rating \in {"Good", "Moderate", "Low"}

C2_Witness ==
    /\ call.op = "checkin"
    /\ response.status = 200
    /\ RatingSum(call.request) = 19
    /\ LastEntry(file).sentiment = "positive"
    /\ response.mood_rating = "Good"

\* C3 as stated: every check-in that computes mood m on stored health h
\* persists clamp(h + delta(m), 0, 100).
C3_ClampedDeltaAlways ==
    [][CheckinCompleted =>
          file'.value.current_health
              = Clamp(StoredHealth(file) + Delta(response'.mood_rating))]_vars

\* C3 amended: a check-in whose free text does not contain "die" in any case
\* persists clamp(h + delta(m), 0, 100); one whose text does persists 7.
C3_ClampedDeltaUnlessEmergency ==
    [][CheckinCompleted =>
          file'.value.current_health
              = IF HasDie(call'.request.free_text)
                THEN 7
                ELSE Clamp(StoredHealth(file) + Delta(response'.mood_rating))]_vars

C3_Witness ==
    /\ call.op = "checkin"
    /\ response.status = 200
    /\ ~HasDie(call.request.free_text)
    /\ response.mood_rating = "Moderate"
    /\ file.value.current_health = 99

\* C4: is_emergency is true iff the free text contains "die" in any case, and
\* then the persisted current_health is 7.
C4_EmergencyIffDie ==
    [][CheckinCompleted =>
          /\ response'.is_emergency <=> HasDie(call'.request.free_text)
          /\ response'.is_emergency =>
                /\ file'.value.current_health = 7
                /\ response'.new_health_score = 7]_vars

C4_Witness ==
    /\ call.op = "checkin"
    /\ response.status = 200
    /\ call.request.free_text = T_DIe
    /\ response.is_emergency
    /\ response.mood_rating = "Good"
    /\ file.value.current_health = 7

\* C5: a check-in whose classifier call raises still completes: sentiment
\* neutral, entry appended, document persisted, normal response.
C5_ClassifierFailureAbsorbed ==
    (call.op = "checkin" /\ call.reply.kind = "raise") =>
        /\ response.status = 200
        /\ file.kind = "json"
        /\ Len(file.value.entries) > 0
        /\ LastEntry(file).sentiment = "neutral"

\* C6: a check-in whose generator call fails uses the fallback message as
\* feedback, appends its entry carrying it, updates current_health by the
\* normal rule and persists the document.
C6_GeneratorFailureFallback ==
    [][(call'.op = "checkin" /\ call'.gen.kind \in {"raise", "none"}) =>
          /\ response'.status = 200
          /\ response'.feedback[1] = FallbackPrefix
          /\ file'.kind = "json"
          /\ Len(file'.value.entries) = Len(EntriesOf(file)) + 1
          /\ SubSeq(file'.value.entries, 1, Len(EntriesOf(file))) = EntriesOf(file)
          /\ LastEntry(file').feedback = response'.feedback
          /\ LastEntry(file').free_text = call'.request.free_text
          /\ file'.value.current_health
                = IF HasDie(call'.request.free_text)
                  THEN 7
                  ELSE Clamp(StoredHealth(file) + Delta(response'.mood_rating))]_vars

C6_Witness ==
    /\ call.op = "checkin"
    /\ call.gen.kind = "raise"
    /\ response.status = 200
    /\ response.feedback[1] = FallbackPrefix
    /\ file.kind = "json"
    /\ LastEntry(file).feedback = response.feedback

\* C7: when the file is absent or does not hold an object with an entries
\* list, load_data returns the default document and no operation fails because
\* of the stored content.
WellFormed(f) ==
    /\ f.kind = "json"
    /\ f.value.type = "dict"
    /\ "entries" \in f.value.keys

C7_MalformedStoreIsDefault ==
    call.op # "none" =>
        /\ ~WellFormed(file) => load_data(file) = Return(DefaultDocument)
        /\ ~(/\ response.status = 500
             /\ response.raised_in \in {"load_data", "create_checkin", "get_tree_health"})

\* C8: the tree-health query returns the stored health unchanged with exactly
\* one tier, 81-100 flourishing, 61-80 healthy, 41-60 neutral, 21-40 wilting,
\* 0-20 rotting, and leaves the document as it is.
Tiers ==
    {[lo |-> 81, hi |-> 100, image |-> "tree-flourishing.png"],
     [lo |-> 61, hi |-> 80, image |-> "tree-healthy.png"],
     [lo |-> 41, hi |-> 60, image |-> "tree-neutral.png"],
     [lo |-> 21, hi |-> 40, image |-> "tree-wilting.png"],
     [lo |-> 0, hi |-> 20, image |-> "tree-rotting.png"]}

C8_TreeTiers ==
    [][call'.op = "tree" =>
          /\ file' = file
          /\ StoredHealth(file) \in 0..100 =>
                /\ response'.status = 200
                /\ response'.health_score = StoredHealth(file)
                /\ Cardinality({t \in Tiers : t.lo <= StoredHealth(file)
                                               /\ StoredHealth(file) <= t.hi}) = 1
                /\ \E t \in Tiers : /\ t.lo <= StoredHealth(file)
                                    /\ StoredHealth(file) <= t.hi
                                    /\ response'.image_file = t.image]_vars

C8_Witness ==
    /\ call.op = "tree"
    /\ response.status = 200
    /\ response.health_score = 80
    /\ response.image_file = "tree-healthy.png"
    /\ EntriesOf(file) # <<>>

\* C9: a check-in that completes leaves the entries it found unchanged and in
\* order and adds its own entry after them; nothing else changes the entries.
C9_AppendOnly ==
    [][IF CheckinCompleted
       THEN /\ file'.kind = "json"
            /\ Len(file'.value.entries) = Len(EntriesOf(file)) + 1
            /\ SubSeq(file'.value.entries, 1, Len(EntriesOf(file))) = EntriesOf(file)
            /\ LastEntry(file').free_text = call'.request.free_text
            /\ LastEntry(file').mcq_score = RatingSum(call'.request)
            /\ LastEntry(file').mood = response'.mood_rating
            /\ LastEntry(file').feedback = response'.feedback
       ELSE EntriesOf(file') = EntriesOf(file)]_vars

C9_Witness ==
    /\ Len(EntriesOf(file)) = 3
    /\ file.value.entries[1].mood = "Low"
    /\ file.value.entries[2].mood = "Good"
    /\ file.value.entries[3].free_text = T_DIe
    /\ call.op = "checkin"
    /\ response.status = 200

\* C10: when two threads have both loaded the same document and both have
\* returned their response, the file holds the document of one of them: one
\* new entry, and the health of that one update.
C10_LastWriterWins ==
    (/\ pc[1] = "done"
     /\ pc[2] = "done"
     /\ loc[1].loaded = loc[2].loaded) =>
        /\ loc[1].response.status = 200
        /\ loc[2].response.status = 200
        /\ \E p \in Procs :
              /\ file = save_data(loc[p].data)
              /\ file.value.current_health = loc[p].response.new_health_score
        /\ Len(file.value.entries) = Len(loc[1].loaded.entries) + 1

C10_Witness ==
    /\ pc[1] = "done"
    /\ pc[2] = "done"
    /\ loc[1].loaded = DefaultDocument
    /\ loc[2].loaded = DefaultDocument
    /\ loc[1].response.status = 200
    /\ loc[2].response.status = 200
    /\ loc[1].response.mood_rating = "Good"
    /\ loc[2].response.mood_rating = "Good"
    /\ Len(file.value.entries) = 1
    /\ file.value.current_health = 55

====
